---- MODULE Spec2Model ----
(***************************************************************************)
(* Model of the persona chatbot's turn pipeline (jcai27/Patient):          *)
(*   - StyleRefiner._enforce_style_rules  (src/src/agents/refiner.py)      *)
(*   - Judge.judge / Judge.apply_edits    (src/src/agents/judge.py)        *)
(*   - Contextor.build_pack               (src/src/agents/contextor.py)    *)
(*   - Orchestrator.process_turn          (src/src/agents/orchestrator.py) *)
(*   - EpisodicMemory                     (src/src/memory/episodic.py)     *)
(*   - chat handler                       (src/src/server/api.py)          *)
(* Texts are sequences of one-character strings.  Scores are in tenths     *)
(* (4.0 is 40).                                                            *)
(***************************************************************************)
EXTENDS Integers, Sequences, FiniteSets, TLC

(***************************************************************************)
(* Characters and text helpers (Python str methods and the re module as    *)
(* _enforce_style_rules uses them).                                        *)
(***************************************************************************)
UpperSeq == <<"A","B","C","D","E","F","G","H","I","J","K","L","M",
              "N","O","P","Q","R","S","T","U","V","W","X","Y","Z">>

LowerSeq == <<"a","b","c","d","e","f","g","h","i","j","k","l","m",
              "n","o","p","q","r","s","t","u","v","w","x","y","z">>

DigitSeq == <<"0","1","2","3","4","5","6","7","8","9">>

SeqRange(s) == { s[i] : i \in 1..Len(s) }

IsUpper(c) == c \in SeqRange(UpperSeq)

IsLowerLetter(c) == c \in SeqRange(LowerSeq)

IsDigit(c) == c \in SeqRange(DigitSeq)

IsSpace(c) == c \in {" ", "\n", "\t"}

\* str.lower() on one character
LowerChar(c) ==
    IF IsUpper(c)
    THEN LowerSeq[CHOOSE i \in 1..Len(UpperSeq) : UpperSeq[i] = c]
    ELSE c

\* str.lower()
Lower(t) == [i \in 1..Len(t) |-> LowerChar(t[i])]

\* t[i:] (1-based, inclusive start)
From(t, i) == IF i > Len(t) THEN <<>> ELSE SubSeq(t, i, Len(t))

\* t.startswith(p) at position i
MatchAt(t, i, p) ==
    /\ i + Len(p) - 1 <= Len(t)
    /\ \A j \in 1..Len(p) : t[i + j - 1] = p[j]

\* index just past the maximal run of characters satisfying the class, from i
RECURSIVE RunEnd(_, _, _)
RunEnd(t, i, cls) ==
    IF i <= Len(t) /\ t[i] \in cls THEN RunEnd(t, i + 1, cls) ELSE i

\* str.strip()
RECURSIVE LStrip(_)
LStrip(t) == IF t # <<>> /\ IsSpace(Head(t)) THEN LStrip(Tail(t)) ELSE t

RECURSIVE RStrip(_)
RStrip(t) ==
    IF t # <<>> /\ IsSpace(t[Len(t)]) THEN RStrip(SubSeq(t, 1, Len(t) - 1)) ELSE t

Strip(t) == RStrip(LStrip(t))

\* str.replace(pat, rep): every non-overlapping occurrence, left to right
RECURSIVE ReplaceAll(_, _, _)
ReplaceAll(t, pat, rep) ==
    IF t = <<>> \/ pat = <<>> THEN t
    ELSE IF MatchAt(t, 1, pat)
         THEN rep \o ReplaceAll(From(t, Len(pat) + 1), pat, rep)
         ELSE <<Head(t)>> \o ReplaceAll(Tail(t), pat, rep)

\* str.split(): the maximal runs of non-whitespace characters
RECURSIVE Split(_)
Split(t) ==
    LET s == LStrip(t)
        e == CHOOSE k \in 1..(Len(s) + 1) :
                 /\ \A j \in 1..(k - 1) : ~IsSpace(s[j])
                 /\ (k = Len(s) + 1 \/ IsSpace(s[k]))
    IN IF s = <<>> THEN <<>>
       ELSE <<SubSeq(s, 1, e - 1)>> \o Split(From(s, e))

\* ' '.join(tokens)
RECURSIVE Join(_)
Join(toks) ==
    IF toks = <<>> THEN <<>>
    ELSE IF Len(toks) = 1 THEN toks[1]
    ELSE toks[1] \o <<" ">> \o Join(Tail(toks))

\* str(n) for a natural number
RECURSIVE NatToText(_)
NatToText(n) ==
    IF n < 10 THEN <<DigitSeq[n + 1]>>
    ELSE NatToText(n \div 10) \o <<DigitSeq[(n % 10) + 1]>>

MaxOf(a, b) == IF a >= b THEN a ELSE b

MinOf(a, b) == IF a <= b THEN a ELSE b

(***************************************************************************)
(* StyleRefiner._enforce_style_rules (refiner.py:168-219).                 *)
(***************************************************************************)
\* re: \[[A-Z]+\d+\] matched at position i; the index of its "]" or 0
CitationEnd(t, i) ==
    IF i > Len(t) \/ t[i] # "[" THEN 0
    ELSE LET u == RunEnd(t, i + 1, SeqRange(UpperSeq))
             d == RunEnd(t, u, SeqRange(DigitSeq))
         IN IF u > i + 1 /\ d > u /\ d <= Len(t) /\ t[d] = "]" THEN d ELSE 0

\* re.fullmatch(r'\[[A-Z]+\d+\]', tok)
IsCitationToken(tok) == tok # <<>> /\ CitationEnd(tok, 1) = Len(tok)

\* the token citation_replacer returns: f"__CIT_{len(citations)}__"
Placeholder(n) == <<"_","_","C","I","T","_">> \o NatToText(n) \o <<"_","_">>

\* re.sub(r'\[[A-Z]+\d+\]', citation_replacer, text), n citations recorded so far
RECURSIVE SubCitations(_, _)
SubCitations(t, n) ==
    IF t = <<>> THEN <<>>
    ELSE LET e == CitationEnd(t, 1)
         IN IF e > 0
            THEN Placeholder(n) \o SubCitations(From(t, e + 1), n + 1)
            ELSE <<Head(t)>> \o SubCitations(Tail(t), n)

\* the values of the citations dict, in insertion order
RECURSIVE FoundCitations(_)
FoundCitations(t) ==
    IF t = <<>> THEN <<>>
    ELSE LET e == CitationEnd(t, 1)
         IN IF e > 0
            THEN <<SubSeq(t, 1, e)>> \o FoundCitations(From(t, e + 1))
            ELSE FoundCitations(Tail(t))

\* for placeholder, citation in citations.items(): temp = temp.replace(...)
RECURSIVE RestoreCitations(_, _, _)
RestoreCitations(temp, cits, k) ==
    IF k > Len(cits) THEN temp
    ELSE RestoreCitations(ReplaceAll(temp, Placeholder(k - 1), cits[k]), cits, k + 1)

\* the character class of refiner.py:188 (its backquote and its three
\* typographic quotes are outside the alphabet of this model)
LoudPunctuation ==
    {"!", ";", ":", "\"", "~", "_", "^", "|", "\\", "/", "@", "#",
     "*", "$", "%", "+", "=", "<", ">", "{", "}"}

StripLoud(t) == SelectSeq(t, LAMBDA c : c \notin LoudPunctuation)

\* re.sub(r'c{2,}', 'c', t)
RECURSIVE CollapseRuns(_, _)
CollapseRuns(t, c) ==
    IF t = <<>> THEN <<>>
    ELSE IF Head(t) = c
         THEN <<c>> \o CollapseRuns(From(t, RunEnd(t, 1, {c})), c)
         ELSE <<Head(t)>> \o CollapseRuns(Tail(t), c)

\* re.sub(r',\s*,+', ', ', t)
RECURSIVE CollapseCommas(_)
CollapseCommas(t) ==
    IF t = <<>> THEN <<>>
    ELSE LET w == RunEnd(t, 2, {" ", "\n", "\t"})
             e == RunEnd(t, w, {","})
         IN IF Head(t) = "," /\ e > w
            THEN <<",", " ">> \o CollapseCommas(From(t, e))
            ELSE <<Head(t)>> \o CollapseCommas(Tail(t))

\* re.sub(r'\s+', ' ', t)
RECURSIVE CollapseSpaces(_)
CollapseSpaces(t) ==
    IF t = <<>> THEN <<>>
    ELSE IF IsSpace(Head(t))
         THEN <<" ">> \o CollapseSpaces(From(t, RunEnd(t, 1, {" ", "\n", "\t"})))
         ELSE <<Head(t)>> \o CollapseSpaces(Tail(t))

\* len(re.findall(r"[a-z']+", tok))
ContentWords(tok) ==
    LET cls == SeqRange(LowerSeq) \cup {"'"}
    IN Cardinality({ i \in 1..Len(tok) :
                        tok[i] \in cls /\ (i = 1 \/ tok[i - 1] \notin cls) })

\* max_words, refiner.py:197-198
MaxWords(user_message) ==
    LET user_word_count == MaxOf(1, Len(Split(user_message)))
    IN MaxOf(6, MinOf(35, ((user_word_count * 12) \div 10) + 4))

\* the inner loop of refiner.py:209-211
RECURSIVE AppendRemaining(_, _, _)
AppendRemaining(trimmed, tokens, idx) ==
    IF idx > Len(tokens) THEN trimmed
    ELSE LET remaining == tokens[idx]
         IN IF IsCitationToken(remaining) /\ remaining \notin SeqRange(trimmed)
            THEN AppendRemaining(Append(trimmed, remaining), tokens, idx + 1)
            ELSE AppendRemaining(trimmed, tokens, idx + 1)

\* the loop of refiner.py:204-212
RECURSIVE TrimTokens(_, _, _, _, _)
TrimTokens(tokens, idx, trimmed, count, max_words) ==
    IF idx > Len(tokens) THEN trimmed
    ELSE LET tok == tokens[idx]
             t2 == Append(trimmed, tok)
             c2 == count + (IF IsCitationToken(tok) THEN 0 ELSE ContentWords(tok))
         IN IF c2 >= max_words
            THEN AppendRemaining(t2, tokens, idx + 1)
            ELSE TrimTokens(tokens, idx + 1, t2, c2, max_words)

\* re.sub(r'[,:;]+$', '', t)
RECURSIVE StripTrailingPunct(_)
StripTrailingPunct(t) ==
    IF t # <<>> /\ t[Len(t)] \in {",", ":", ";"}
    THEN StripTrailingPunct(SubSeq(t, 1, Len(t) - 1))
    ELSE t

EnforceStyleRules(text, user_message) ==
    IF text = <<>> THEN text
    ELSE LET cits == FoundCitations(text)
             t1 == SubCitations(text, 0)
             t2 == Lower(t1)
             t3 == RestoreCitations(t2, cits, 1)
             t4 == StripLoud(t3)
             t5 == CollapseRuns(t4, ".")
             t6 == CollapseRuns(t5, "?")
             t7 == CollapseCommas(t6)
             t8 == Strip(CollapseSpaces(t7))
             trimmed == TrimTokens(Split(t8), 1, <<>>, 0, MaxWords(user_message))
             t9 == Strip(Join(trimmed))
         IN Strip(StripTrailingPunct(t9))

(***************************************************************************)
(* Oracle responses as json.loads sees them.  A response is a record:      *)
(* kind "text" is not JSON, "array"/"scalar" are JSON that is no object,   *)
(* "object" is a JSON object whose fields are the JSON values below.       *)
(***************************************************************************)
JMissing == [t |-> "missing", v |-> 0]   \* the key is absent

JNull == [t |-> "null", v |-> 0]

JStr == [t |-> "str", v |-> 0]           \* a non-numeric, non-boolean string

JNum(n) == [t |-> "num", v |-> n]        \* a number, in tenths for scores

JBool(b) == [t |-> "bool", v |-> IF b THEN 1 ELSE 0]

JList(n) == [t |-> "list", v |-> n]      \* a list of n strings

\* dict.get(key, default)
Get(field, default) == IF field.t = "missing" THEN default ELSE field

\* Python truth value of a JSON value
Truthy(x) ==
    CASE x.t = "bool" -> x.v = 1
      [] x.t = "num"  -> x.v # 0
      [] x.t = "str"  -> TRUE
      [] x.t = "list" -> x.v > 0
      [] OTHER        -> FALSE

\* float(x): the exception it raises ("none" if it returns) and the value
ToFloat(x) ==
    CASE x.t = "num"  -> [exc |-> "none", val |-> x.v]
      [] x.t = "bool" -> [exc |-> "none", val |-> x.v * 10]
      [] x.t = "str"  -> [exc |-> "ValueError", val |-> 0]
      [] OTHER        -> [exc |-> "TypeError", val |-> 0]

\* issubclass(exc, handler) for the exception classes involved
IsSubclass(exc, handler) ==
    \/ exc = handler
    \/ exc \in {"JSONDecodeError", "ValidationError"} /\ handler = "ValueError"

Caught(exc, handlers) == \E h \in handlers : IsSubclass(exc, h)

\* the first exception of a sequence of evaluations, "none" if there is none
RECURSIVE FirstExc(_)
FirstExc(excs) ==
    IF excs = <<>> THEN "none"
    ELSE IF Head(excs) # "none" THEN Head(excs) ELSE FirstExc(Tail(excs))

(***************************************************************************)
(* Judge.judge (judge.py:89-143) and the models it builds                  *)
(* (models.py:59-73).                                                      *)
(***************************************************************************)
Threshold == 40

ScoreMin == 10

ScoreMax == 50

GenericEdit == "Unable to parse judge response. Please review manually."

\* JudgeScores(...): Field(ge=1.0, le=5.0) on each score
ScoresValid(s) ==
    \A k \in {"factuality", "persona", "helpfulness", "safety", "overall"} :
        ScoreMin <= s[k] /\ s[k] <= ScoreMax

\* the reconciliation that forgets the safety score
ReconcileAcceptNoSafety(accept, scores) ==
    IF ~Truthy(accept)
    THEN IF \/ scores.factuality < Threshold
            \/ scores.persona < Threshold
            \/ scores.helpfulness < Threshold
         THEN JBool(FALSE)
         ELSE JBool(TRUE)
    ELSE accept

\* judge.py:110-119
ReconcileAccept(accept, scores) ==
    IF ~Truthy(accept)
    THEN IF \/ scores.factuality < Threshold
            \/ scores.persona < Threshold
            \/ scores.helpfulness < Threshold
            \/ scores.safety < Threshold
         THEN JBool(FALSE)
         ELSE JBool(TRUE)
    ELSE accept

\* a fallback that accepts
JudgeFallbackAccepting ==
    [outcome |-> "returned", exc |-> "none", accept |-> TRUE,
     scores |-> [factuality |-> 30, persona |-> 30, helpfulness |-> 30,
                 safety |-> 50, overall |-> 35],
     targeted_edits |-> <<GenericEdit>>]

\* judge.py:132-143
JudgeFallback ==
    [outcome |-> "returned", exc |-> "none", accept |-> FALSE,
     scores |-> [factuality |-> 30, persona |-> 30, helpfulness |-> 30,
                 safety |-> 50, overall |-> 35],
     targeted_edits |-> <<GenericEdit>>]

\* the except clause of judge.py:130
JudgeHandlers == {"JSONDecodeError", "KeyError", "ValueError", "TypeError"}

\* the try block of judge.py:90-128
JudgeTry(resp) ==
    IF resp.kind = "text" THEN [exc |-> "JSONDecodeError"]
    ELSE IF resp.kind # "object" THEN [exc |-> "AttributeError"]
    ELSE LET f == ToFloat(Get(resp.factuality, JNum(30)))
             p == ToFloat(Get(resp.persona, JNum(30)))
             h == ToFloat(Get(resp.helpfulness, JNum(30)))
             s == ToFloat(Get(resp.safety, JNum(50)))
             o == ToFloat(Get(resp.overall, JNum(30)))
             conv == FirstExc(<<f.exc, p.exc, h.exc, s.exc, o.exc>>)
             scores == [factuality |-> f.val, persona |-> p.val,
                        helpfulness |-> h.val, safety |-> s.val,
                        overall |-> o.val]
             accept == ReconcileAccept(Get(resp.accept, JBool(FALSE)), scores)
             edits == Get(resp.targeted_edits, JList(0))
         IN IF conv # "none" THEN [exc |-> conv]
            ELSE IF ~ScoresValid(scores) THEN [exc |-> "ValidationError"]
            ELSE IF accept.t # "bool" \/ edits.t # "list"
                 THEN [exc |-> "ValidationError"]
            ELSE [exc |-> "none",
                  accept |-> (accept.v = 1),
                  scores |-> scores,
                  targeted_edits |-> [i \in 1..edits.v |-> "edit"]]

Judge(resp) ==
    LET r == JudgeTry(resp)
    IN IF r.exc = "none"
       THEN [outcome |-> "returned", exc |-> "none", accept |-> r.accept,
             scores |-> r.scores, targeted_edits |-> r.targeted_edits]
       ELSE IF Caught(r.exc, JudgeHandlers)
            THEN JudgeFallback
            ELSE [outcome |-> "raised", exc |-> r.exc, accept |-> FALSE,
                  scores |-> JudgeFallback.scores, targeted_edits |-> <<>>]

(***************************************************************************)
(* Contextor.build_pack (contextor.py:61-203) with _classify_intent,       *)
(* _apply_persona_overrides and _default_pack.  A persona is the record    *)
(* of what the Contextor loaded: has_profile, max_sentence_len (the second *)
(* entry of avg_sentence_len) and allow_follow_up_questions.  Of the pack  *)
(* the scalar fields are modelled; of the style oracle's object the keys   *)
(* hedging_level, target_len_tokens, follow_up_question_required and       *)
(* few_shots (its other keys are absent).                                  *)
(***************************************************************************)
\* pat in t, for Python's substring test
Contains(t, pat) == \E i \in 1..(Len(t) + 1) : MatchAt(t, i, pat)

ContainsAny(t, pats) == \E p \in pats : Contains(t, p)

AdviceWords ==
    { <<"a","d","v","i","c","e">>, <<"s","h","o","u","l","d">>,
      <<"r","e","c","o","m","m","e","n","d">>, <<"s","u","g","g","e","s","t">>,
      <<"h","o","w"," ","t","o">> }

StoryWords ==
    { <<"s","t","o","r","y">>, <<"t","e","l","l">>,
      <<"r","e","m","e","m","b","e","r">>, <<"o","n","c","e">> }

OpinionWords ==
    { <<"t","h","i","n","k">>, <<"o","p","i","n","i","o","n">>,
      <<"b","e","l","i","e","v","e">>, <<"f","e","e","l">> }

\* contextor.py:205-218
ClassifyIntent(message) ==
    LET message_lower == Lower(message)
    IN IF ContainsAny(message_lower, AdviceWords) THEN "advice"
       ELSE IF ContainsAny(message_lower, StoryWords) THEN "storytelling"
       ELSE IF ContainsAny(message_lower, OpinionWords) THEN "opinion"
       ELSE IF Len(Split(message)) < 10 THEN "chit-chat"
       ELSE "default"

\* int((length_target[0] + length_target[1]) / 2) over STYLE_LENGTH_TARGETS
LengthTargetAvg(intent) ==
    CASE intent = "advice"       -> (150 + 220) \div 2
      [] intent = "chit-chat"    -> (60 + 120) \div 2
      [] intent = "storytelling" -> (200 + 350) \div 2
      [] intent = "opinion"      -> (100 + 180) \div 2
      [] OTHER                   -> (100 + 200) \div 2

\* contextor.py:256-269 (the clamps of target_len_tokens)
ApplyPersonaOverrides(pack, persona, user_message) ==
    LET approx_tokens == MaxOf(18, (persona.max_sentence_len * 2 * 12) \div 10)
        t1 == IF persona.has_profile
              THEN MinOf(pack.target_len_tokens, approx_tokens)
              ELSE pack.target_len_tokens
        message_word_count == MaxOf(1, Len(Split(user_message)))
        proportional_word_cap ==
            MaxOf(6, MinOf(40, ((message_word_count * 12) \div 10) + 4))
        proportional_token_cap == (proportional_word_cap * 13) \div 10
    IN [pack EXCEPT !.target_len_tokens = MinOf(t1, proportional_token_cap)]

\* contextor.py:288-307
DefaultPack(persona, user_message) ==
    ApplyPersonaOverrides(
        [tone |-> "warm", hedging_level |-> 3, formality |-> 2,
         emoji_policy |-> "light",
         target_len_tokens |-> LengthTargetAvg(ClassifyIntent(user_message)),
         follow_up_question_required |-> persona.allow_follow_up_questions],
        persona, user_message)

\* the except clause of contextor.py:201
ContextorHandlers == {"JSONDecodeError", "KeyError", "TypeError"}

\* StylePolicyPack(...): an int field
IntFieldValid(x) == x.t \in {"num", "bool"}

\* StylePolicyPack(...): a bool field
BoolFieldValid(x) == x.t = "bool"

\* the exception of contextor.py:174-176 on few_shots, "none" if there is none
FewShotsExc(x) ==
    CASE x.t = "objs" -> "none"
      [] x.t = "list" -> IF x.v > 0 THEN "TypeError" ELSE "none"
      [] OTHER        -> "TypeError"

\* the try block of contextor.py:160-199
BuildPackTry(resp, persona, user_message) ==
    IF resp.kind = "text" THEN [exc |-> "JSONDecodeError"]
    ELSE IF resp.kind # "object" THEN [exc |-> "AttributeError"]
    ELSE LET fs == FewShotsExc(Get(resp.few_shots, JList(0)))
             hedging == Get(resp.hedging_level, JNum(2))
             target == Get(resp.target_len_tokens,
                           JNum(LengthTargetAvg(ClassifyIntent(user_message))))
             follow == Get(resp.follow_up_question_required,
                           JBool(persona.allow_follow_up_questions))
         IN IF fs # "none" THEN [exc |-> fs]
            ELSE IF ~(IntFieldValid(hedging) /\ IntFieldValid(target)
                      /\ BoolFieldValid(follow))
                 THEN [exc |-> "ValidationError"]
            ELSE [exc |-> "none",
                  pack |-> ApplyPersonaOverrides(
                      [tone |-> "neutral", hedging_level |-> hedging.v,
                       formality |-> 3, emoji_policy |-> "none",
                       target_len_tokens |-> target.v,
                       follow_up_question_required |-> (follow.v = 1)],
                      persona, user_message)]

BuildPack(resp, persona, user_message) ==
    LET r == BuildPackTry(resp, persona, user_message)
    IN IF r.exc = "none"
       THEN [outcome |-> "returned", exc |-> "none", pack |-> r.pack]
       ELSE IF Caught(r.exc, ContextorHandlers)
            THEN [outcome |-> "returned", exc |-> "none",
                  pack |-> DefaultPack(persona, user_message)]
            ELSE [outcome |-> "raised", exc |-> r.exc,
                  pack |-> DefaultPack(persona, user_message)]

(***************************************************************************)
(* Inputs of the turn pipeline: what the oracles and the clients send.     *)
(***************************************************************************)
MaxTurns == 2

MAX_REVISE_LOOPS == 2

JObjs(n) == [t |-> "objs", v |-> n]      \* a list of n user/assistant objects

NoSession == "none"

Sessions == {"s1", "s2"}

Users == {"u1", "u2"}

MsgHi == <<"h","i">>

MsgLike == <<"I"," ","L","i","k","e"," ","t","e","a">>

UserMessages == {MsgHi, MsgLike}

\* outputs of the generation oracle
TextOk == <<"O","k","!">>

TextCite == <<"Y","e","s"," ","[","D","3","]",".">>

TextLoud == <<"!","!">>

TextNo == <<"N","O","!">>

TextFine == <<" ","f","i","n","e","?"," ">>

RefineTexts == {TextOk, TextCite, TextLoud}

EditTexts == {TextNo, TextFine, TextCite}

SummaryTexts == {<<"s","u","m">>}

Personas ==
    { [has_profile |-> TRUE, max_sentence_len |-> 18,
       allow_follow_up_questions |-> TRUE],
      [has_profile |-> FALSE, max_sentence_len |-> 18,
       allow_follow_up_questions |-> FALSE] }

\* a JSON object of the judging oracle
JudgeObject(f, p, h, s, o, a, e) ==
    [kind |-> "object", factuality |-> f, persona |-> p, helpfulness |-> h,
     safety |-> s, overall |-> o, accept |-> a, targeted_edits |-> e]

\* a response of the judging oracle that json.loads does not turn into a dict
JudgeNonObject(kind) ==
    [JudgeObject(JMissing, JMissing, JMissing, JMissing, JMissing, JMissing,
                 JMissing) EXCEPT !.kind = kind]

\* the judging oracle's outputs in the pipeline: unparseable, a JSON array,
\* accept, reject with two edits, reject without edits, reject flag with
\* all scores at the threshold
PipelineJudgeResponses ==
    { JudgeNonObject("text"),
      JudgeNonObject("array"),
      JudgeObject(JNum(50), JNum(45), JNum(40), JNum(50), JNum(46),
                  JBool(TRUE), JList(0)),
      JudgeObject(JNum(30), JNum(45), JNum(40), JNum(50), JNum(41),
                  JBool(FALSE), JList(2)),
      JudgeObject(JNum(20), JNum(45), JNum(40), JNum(50), JNum(39),
                  JBool(FALSE), JList(0)),
      JudgeObject(JNum(40), JNum(40), JNum(40), JNum(40), JNum(40),
                  JBool(FALSE), JList(1)) }

\* a JSON object of the style oracle
StyleObject(h, t, f, fs) ==
    [kind |-> "object", hedging_level |-> h, target_len_tokens |-> t,
     follow_up_question_required |-> f, few_shots |-> fs]

\* a response of the style oracle that json.loads does not turn into a dict
StyleNonObject(kind) ==
    [StyleObject(JMissing, JMissing, JMissing, JMissing) EXCEPT !.kind = kind]

\* the style oracle's outputs in the pipeline: unparseable, a JSON array, a
\* well-formed object, a wrong-typed hedging level, an out-of-range one
PipelineStyleResponses ==
    { StyleNonObject("text"),
      StyleNonObject("array"),
      StyleObject(JNum(4), JNum(50), JBool(TRUE), JObjs(2)),
      StyleObject(JStr, JNum(50), JBool(TRUE), JObjs(2)),
      StyleObject(JNum(9), JMissing, JMissing, JMissing) }

(***************************************************************************)
(* State.  The store is the SQLite database of EpisodicMemory: the tables  *)
(* conversation_turns (rows in id order), conversation_summaries (one row  *)
(* per session id) and episodic_notes (rows in id order).  The other       *)
(* variables are the locals of the chat handler and of process_turn.       *)
(***************************************************************************)
VARIABLES
    turns,                  \* conversation_turns
    summaries,              \* conversation_summaries, by session id
    notes,                  \* episodic_notes
    persona,                \* what the Contextor of the orchestrator loaded
    pc,                     \* where the request being served stands
    served,                 \* requests received so far
    user_message,
    user_id,
    session_id,
    conversation_history,
    style_pack,
    final_response,
    iterations,
    judge_decision,         \* the decision of the last judge call
    judge_scores,
    judge_edits,
    judge_calls,            \* judge calls of this turn
    apply_calls,            \* apply_edits calls of this turn
    result,                 \* what process_turn returned
    writers,                \* append_turn calls in progress, by connection
    fn_in,                  \* the arguments of a function applied on its own
    fn_out,                 \* its result
    facts,                  \* self.facts of the retriever
    rpc,                    \* where the retrieval of a turn stands
    initial_results,
    reranked_results,
    avg_confidence,         \* as a fraction num / den of hundredths
    producer_path,          \* the branch Producer.produce took
    oracle_calls,           \* index and relevance-oracle calls of the turn
    retrieved_confidence    \* what build_pack received

storeVars == <<turns, summaries, notes>>

turnVars ==
    <<persona, pc, served, user_message, user_id, session_id,
      conversation_history, style_pack, final_response, iterations,
      judge_decision, judge_scores, judge_edits, judge_calls, apply_calls,
      result>>

fnVars == <<fn_in, fn_out>>

retrVars ==
    <<facts, rpc, initial_results, reranked_results, avg_confidence,
      producer_path, oracle_calls, retrieved_confidence>>

vars == <<storeVars, turnVars, writers, fnVars, retrVars>>

\* judge_scores = None
NoScores ==
    [factuality |-> 0, persona |-> 0, helpfulness |-> 0, safety |-> 0,
     overall |-> 0]

NoDecision ==
    [outcome |-> "none", exc |-> "none", accept |-> FALSE, scores |-> NoScores,
     targeted_edits |-> <<>>]

NoPack ==
    [tone |-> "", hedging_level |-> 0, formality |-> 0, emoji_policy |-> "",
     target_len_tokens |-> 0, follow_up_question_required |-> FALSE]

NoResult ==
    [response |-> <<>>, session_id |-> NoSession, citations |-> {},
     scores |-> NoScores, revised |-> FALSE]

NoSummary == [user_id |-> "", rolling_summary |-> <<>>, conversation_turns |-> 0]

\* the session id uuid.uuid4() gives a request that carries none
FreshSession == "uuid"

AllSessions == Sessions \cup {FreshSession}

(***************************************************************************)
(* EpisodicMemory reads (episodic.py:135-159, 200-251).                    *)
(***************************************************************************)
\* the rows of a session in table order
SessionRows(table, sid) == SelectSeq(table, LAMBDA r : r.session_id = sid)

\* ORDER BY turn_index ASC (rows of equal index in table order)
RECURSIVE SortByIndex(_)
SortByIndex(rows) ==
    IF rows = <<>> THEN <<>>
    ELSE LET i == CHOOSE k \in 1..Len(rows) :
                    /\ \A j \in 1..Len(rows) : rows[k].turn_index <= rows[j].turn_index
                    /\ \A j \in 1..(k - 1) : rows[j].turn_index # rows[k].turn_index
         IN <<rows[i]>> \o
            SortByIndex(SubSeq(rows, 1, i - 1) \o SubSeq(rows, i + 1, Len(rows)))

\* the last n elements of a sequence
LastN(s, n) == IF Len(s) <= n THEN s ELSE SubSeq(s, Len(s) - n + 1, Len(s))

HistoryLimit == 20

\* get_conversation_history(session_id) with its default limit
GetConversationHistory(table, sid) ==
    LET rows == LastN(SortByIndex(SessionRows(table, sid)), HistoryLimit)
    IN [i \in 1..Len(rows) |->
           [user |-> rows[i].user_message, assistant |-> rows[i].assistant_response]]

(***************************************************************************)
(* Orchestrator.process_turn behind the chat handler.                      *)
(***************************************************************************)
\* the loop test off by one: `while iterations <= MAX_REVISE_LOOPS`
LoopTestOffByOne(it) == IF it <= MAX_REVISE_LOOPS THEN "judge" ELSE "memory"

\* the test of `while iterations < MAX_REVISE_LOOPS` (orchestrator.py:151):
\* the next step is another judge call or the code after the loop
LoopTest(it) == IF it < MAX_REVISE_LOOPS THEN "judge" ELSE "memory"

\* text[:100]
First100(t) == IF Len(t) <= 100 THEN t ELSE SubSeq(t, 1, 100)

\* _extract_citations (orchestrator.py:234-239): the ids inside the brackets
ExtractCitations(text) ==
    { SubSeq(text, i + 1, CitationEnd(text, i) - 1) :
        i \in { j \in 1..Len(text) : CitationEnd(text, j) > 0 } }

PreferenceWords ==
    { <<"p","r","e","f","e","r">>, <<"l","i","k","e">>,
      <<"d","i","s","l","i","k","e">>, <<"a","l","w","a","y","s">>,
      <<"n","e","v","e","r">> }

SummaryEvery == 5

\* avg_confidence before it is computed
NoConfidence == [num |-> 0, den |-> 1]

NoCalls == [lexical |-> 0, embed |-> 0, relevance |-> 0]

\* a turn before its retrieval
RetrievalIdle ==
    /\ rpc = "search"
    /\ initial_results = <<>>
    /\ reranked_results = <<>>
    /\ avg_confidence = NoConfidence
    /\ producer_path = "none"
    /\ oracle_calls = NoCalls
    /\ retrieved_confidence = NoConfidence

TurnInit ==
    /\ pc = "idle"
    /\ served = 0
    /\ user_message = <<>>
    /\ user_id = ""
    /\ session_id = NoSession
    /\ conversation_history = <<>>
    /\ style_pack = NoPack
    /\ final_response = <<>>
    /\ iterations = 0
    /\ judge_decision = NoDecision
    /\ judge_scores = NoScores
    /\ judge_edits = <<>>
    /\ judge_calls = 0
    /\ apply_calls = 0
    /\ result = NoResult

StoreInit ==
    /\ turns = <<>>
    /\ summaries = [s \in AllSessions |-> NoSummary]
    /\ notes = <<>>

\* api.py:95-113 and orchestrator.py:63-77: a request arrives, the handler
\* reads the session's history from the store and calls process_turn
ChatRequest(sids, limit) ==
    /\ pc \in {"idle", "done", "error"}
    /\ served < limit
    /\ \E msg \in UserMessages, uid \in Users, sid \in sids :
          /\ user_message' = msg
          /\ user_id' = uid
          /\ session_id' = IF sid = NoSession THEN FreshSession ELSE sid
          /\ conversation_history' =
                IF sid # NoSession THEN GetConversationHistory(turns, sid) ELSE <<>>
    /\ served' = served + 1
    /\ pc' = "contextor"
    /\ style_pack' = NoPack
    /\ final_response' = <<>>
    /\ iterations' = 0
    /\ judge_decision' = NoDecision
    /\ judge_scores' = NoScores
    /\ judge_edits' = <<>>
    /\ judge_calls' = 0
    /\ apply_calls' = 0
    /\ result' = NoResult
    /\ UNCHANGED <<storeVars, persona, writers, fnVars, retrVars>>

\* a request of any session, or of none
Chat == ChatRequest(Sessions \cup {NoSession}, MaxTurns)

\* orchestrator.py:122-127: the style oracle answers; an exception build_pack
\* does not handle leaves process_turn and the handler answers 500
BuildPackStep ==
    /\ pc = "contextor"
    /\ \E resp \in PipelineStyleResponses :
          LET r == BuildPack(resp, persona, user_message)
          IN IF r.outcome = "raised"
             THEN /\ pc' = "error"
                  /\ UNCHANGED style_pack
             ELSE /\ pc' = "refine"
                  /\ style_pack' = r.pack
    /\ UNCHANGED <<storeVars, persona, served, user_message, user_id, session_id,
                   conversation_history, final_response, iterations,
                   judge_decision, judge_scores, judge_edits, judge_calls,
                   apply_calls, result, writers, fnVars, retrVars>>

\* orchestrator.py:136-149 with refiner.py:157-166: the generation oracle
\* answers, the answer is stripped and enforced
RefineStep ==
    /\ pc = "refine"
    /\ \E text \in RefineTexts :
          final_response' = EnforceStyleRules(Strip(text), user_message)
    /\ pc' = LoopTest(iterations)
    /\ UNCHANGED <<storeVars, persona, served, user_message, user_id, session_id,
                   conversation_history, style_pack, iterations, judge_decision,
                   judge_scores, judge_edits, judge_calls, apply_calls, result,
                   writers, fnVars, retrVars>>

\* a branch that revises whenever the decision is not an acceptance
AfterJudgeAlwaysEdits(accept, targeted_edits) ==
    IF accept THEN "memory" ELSE "edit"

\* the branch after a judging pass (orchestrator.py:178-191): leave the loop
\* on an acceptance or on a rejection without edits, revise otherwise
AfterJudge(accept, targeted_edits) ==
    IF accept THEN "memory"
    ELSE IF targeted_edits # <<>> THEN "edit" ELSE "memory"

\* orchestrator.py:163-191 up to the branch taken: the judging oracle answers
JudgeStep ==
    /\ pc = "judge"
    /\ \E resp \in PipelineJudgeResponses :
          LET d == Judge(resp)
          IN IF d.outcome = "raised"
             THEN /\ pc' = "error"
                  /\ UNCHANGED <<judge_decision, judge_scores, judge_edits>>
             ELSE /\ judge_decision' = d
                  /\ judge_scores' = d.scores
                  /\ pc' = AfterJudge(d.accept, d.targeted_edits)
                  /\ judge_edits' = IF AfterJudge(d.accept, d.targeted_edits) = "edit"
                                    THEN d.targeted_edits
                                    ELSE judge_edits
    /\ judge_calls' = judge_calls + 1
    /\ UNCHANGED <<storeVars, persona, served, user_message, user_id, session_id,
                   conversation_history, style_pack, final_response, iterations,
                   apply_calls, result, writers, fnVars, retrVars>>

\* orchestrator.py:184-189 with judge.py:145-184: the generation oracle's
\* revision, stripped, becomes the response; then the loop test
ApplyEditsStep ==
    /\ pc = "edit"
    /\ \E text \in EditTexts : final_response' = Strip(text)
    /\ iterations' = iterations + 1
    /\ apply_calls' = apply_calls + 1
    /\ pc' = LoopTest(iterations + 1)
    /\ UNCHANGED <<storeVars, persona, served, user_message, user_id, session_id,
                   conversation_history, style_pack, judge_decision, judge_scores,
                   judge_edits, judge_calls, result, writers, fnVars, retrVars>>

\* _update_memory (orchestrator.py:241-269): the summary row of the session
UpdatedSummaries(summary) ==
    LET full_history ==
            Append(conversation_history,
                   [user |-> user_message, assistant |-> final_response])
    IN IF Len(full_history) % SummaryEvery = 0
       THEN [summaries EXCEPT ![session_id] =
                [user_id |-> user_id, rolling_summary |-> Strip(summary),
                 conversation_turns |-> Len(full_history)]]
       ELSE summaries

\* a notes table that takes a note only if it does not hold an equal one
UpdatedNotesDeduplicated ==
    LET note == [user_id |-> user_id, bullet |-> First100(user_message),
                 response |-> First100(final_response)]
    IN IF /\ ContainsAny(Lower(user_message), PreferenceWords)
          /\ \A i \in 1..Len(notes) : notes[i] # note
       THEN Append(notes, note)
       ELSE notes

\* _update_memory (orchestrator.py:263-269): the notes table
UpdatedNotes ==
    IF ContainsAny(Lower(user_message), PreferenceWords)
    THEN Append(notes, [user_id |-> user_id,
                        bullet |-> First100(user_message),
                        response |-> First100(final_response)])
    ELSE notes

\* a returned dict whose revised flag is set only by a second revision
TurnResultLateFlag(response, sid, scores, it) ==
    [response |-> response, session_id |-> sid,
     citations |-> ExtractCitations(response), scores |-> scores,
     revised |-> (it > 1)]

\* the dict process_turn returns (orchestrator.py:214-222)
TurnResult(response, sid, scores, it) ==
    [response |-> response, session_id |-> sid,
     citations |-> ExtractCitations(response), scores |-> scores,
     revised |-> (it > 0)]

\* orchestrator.py:193-222: citations, _update_memory, the returned dict
Finish ==
    /\ pc = "memory"
    /\ \E summary \in SummaryTexts : summaries' = UpdatedSummaries(summary)
    /\ notes' = UpdatedNotes
    /\ result' = TurnResult(final_response, session_id, judge_scores, iterations)
    /\ pc' = "done"
    /\ UNCHANGED <<turns, persona, served, user_message, user_id, session_id,
                   conversation_history, style_pack, final_response, iterations,
                   judge_decision, judge_scores, judge_edits, judge_calls,
                   apply_calls, writers, fnVars, retrVars>>

Init ==
    /\ StoreInit
    /\ TurnInit
    /\ facts = <<>>
    /\ RetrievalIdle
    /\ persona \in Personas
    /\ writers = <<>>
    /\ fn_in = [fn |-> "none"]
    /\ fn_out = [fn |-> "none"]

Next ==
    \/ Chat
    \/ BuildPackStep
    \/ RefineStep
    \/ JudgeStep
    \/ ApplyEditsStep
    \/ Finish

Spec == Init /\ [][Next]_vars

(***************************************************************************)
(* One session served turn after turn through the chat handler, every turn *)
(* accepted at its first judging pass.                                     *)
(***************************************************************************)
SessionTurns == 6

\* the next request of session s1
SessionChat == ChatRequest({"s1"}, SessionTurns)

\* orchestrator.py:122-181 of a turn whose style pack is built, whose
\* refined text is TextOk and whose first judging pass accepts
AcceptedTurn ==
    /\ pc = "contextor"
    /\ \E sresp \in PipelineStyleResponses, jresp \in PipelineJudgeResponses :
          LET r == BuildPack(sresp, persona, user_message)
              d == Judge(jresp)
          IN /\ r.outcome = "returned"
             /\ d.outcome = "returned"
             /\ AfterJudge(d.accept, d.targeted_edits) = "memory"
             /\ style_pack' = r.pack
             /\ judge_decision' = d
             /\ judge_scores' = d.scores
    /\ final_response' = EnforceStyleRules(Strip(TextOk), user_message)
    /\ LoopTest(iterations) = "judge"
    /\ judge_calls' = judge_calls + 1
    /\ pc' = "memory"
    /\ UNCHANGED <<storeVars, persona, served, user_message, user_id, session_id,
                   conversation_history, iterations, judge_edits, apply_calls,
                   result, writers, fnVars, retrVars>>

NextSession ==
    \/ SessionChat
    \/ AcceptedTurn
    \/ Finish

SpecSession == Init /\ [][NextSession]_vars

(***************************************************************************)
(* The turns of a session whose oracle calls may raise or never return.    *)
(* LLMClient.call (llm.py:31-62) hands the request to the provider's       *)
(* client and waits for its answer; no caller wraps the call in a try      *)
(* block, and nothing reads LATENCY_BUDGET_SECONDS (config.py:34).         *)
(***************************************************************************)
\* the places of a turn where an oracle call is under way: retrieval,
\* produce and build_pack, refine, judge, apply_edits, and summarize when
\* the summary is due (orchestrator.py:256-260)
OracleCallSites ==
    {"contextor", "refine", "judge", "edit"} \cup
    (IF (Len(conversation_history) + 1) % SummaryEvery = 0
     THEN {"memory"} ELSE {})

\* a failure after which the note of the turn is written all the same
OracleFailsKeepingNote ==
    /\ pc \in OracleCallSites
    /\ pc' = "error"
    /\ notes' = UpdatedNotes
    /\ judge_calls' = IF pc = "judge" THEN judge_calls + 1 ELSE judge_calls
    /\ apply_calls' = IF pc = "edit" THEN apply_calls + 1 ELSE apply_calls
    /\ UNCHANGED <<turns, summaries, persona, served, user_message, user_id,
                   session_id, conversation_history, style_pack, final_response,
                   iterations, judge_decision, judge_scores, judge_edits, result,
                   writers, fnVars, retrVars>>

\* an oracle call raises: the exception leaves process_turn
\* (orchestrator.py:113-209) before _update_memory wrote anything, and the
\* handler answers 500 (api.py:121-125)
OracleFails ==
    /\ pc \in OracleCallSites
    /\ pc' = "error"
    /\ notes' = notes
    /\ judge_calls' = IF pc = "judge" THEN judge_calls + 1 ELSE judge_calls
    /\ apply_calls' = IF pc = "edit" THEN apply_calls + 1 ELSE apply_calls
    /\ UNCHANGED <<turns, summaries, persona, served, user_message, user_id,
                   session_id, conversation_history, style_pack, final_response,
                   iterations, judge_decision, judge_scores, judge_edits, result,
                   writers, fnVars, retrVars>>

\* an oracle call never returns: process_turn waits in LLMClient.call
OracleHangs ==
    /\ pc \in OracleCallSites
    /\ pc' = "hung"
    /\ judge_calls' = IF pc = "judge" THEN judge_calls + 1 ELSE judge_calls
    /\ apply_calls' = IF pc = "edit" THEN apply_calls + 1 ELSE apply_calls
    /\ UNCHANGED <<storeVars, persona, served, user_message, user_id,
                   session_id, conversation_history, style_pack, final_response,
                   iterations, judge_decision, judge_scores, judge_edits, result,
                   writers, fnVars, retrVars>>

\* the steps of the turn being served
TurnStep ==
    \/ OracleFails
    \/ OracleHangs
    \/ BuildPackStep
    \/ RefineStep
    \/ JudgeStep
    \/ ApplyEditsStep
    \/ Finish

\* the next request of session s1, MaxTurns of them
OracleChat == ChatRequest({"s1"}, MaxTurns)

NextOracle ==
    \/ OracleChat
    \/ TurnStep

\* the interpreter goes on with the handler it runs
SpecOracle == Init /\ [][NextOracle]_vars /\ WF_vars(TurnStep)

(***************************************************************************)
(* EpisodicMemory.append_turn (episodic.py:161-198) called over several    *)
(* connections at once.  sqlite3 runs the SELECT outside a transaction;    *)
(* the INSERT opens one and takes the database's write lock, which the     *)
(* commit releases; UNIQUE(session_id, turn_index) is checked by the       *)
(* INSERT against the committed rows.                                      *)
(***************************************************************************)
MaxCalls == 3

\* each call opens a connection of its own (episodic.py:169)
Conns == 1..MaxCalls

IdleWriter ==
    [pc |-> "idle", session_id |-> NoSession, user_id |-> "",
     user_message |-> <<>>, assistant_response |-> <<>>, next_index |-> 0]

\* SELECT COALESCE(MAX(turn_index), -1) ... WHERE session_id = ?
MaxTurnIndex(table, sid) ==
    LET rows == SessionRows(table, sid)
    IN IF rows = <<>> THEN -1
       ELSE CHOOSE m \in { rows[i].turn_index : i \in 1..Len(rows) } :
               \A i \in 1..Len(rows) : rows[i].turn_index <= m

\* the table without its UNIQUE constraint
UniqueOkDropped(table, sid, idx) == TRUE

\* UNIQUE(session_id, turn_index) (episodic.py:58) lets the row in
UniqueOk(table, sid, idx) ==
    \A i \in 1..Len(table) :
        ~(table[i].session_id = sid /\ table[i].turn_index = idx)

\* a connection has inserted and not yet committed
WriteLocked == \E c \in Conns : writers[c].pc = "commit"

\* episodic.py:161-170: a call begins
AppendBegin(c) ==
    /\ writers[c].pc = "idle"
    /\ \E sid \in Sessions, text \in EditTexts :
          writers' = [writers EXCEPT ![c] =
              [pc |-> "select", session_id |-> sid, user_id |-> "u1",
               user_message |-> MsgHi, assistant_response |-> text,
               next_index |-> 0]]
    /\ UNCHANGED <<storeVars, turnVars, fnVars, retrVars>>

\* episodic.py:172-181
AppendSelect(c) ==
    /\ writers[c].pc = "select"
    /\ writers' = [writers EXCEPT ![c].pc = "insert",
                                  ![c].next_index =
                                      MaxTurnIndex(turns, writers[c].session_id) + 1]
    /\ UNCHANGED <<storeVars, turnVars, fnVars, retrVars>>

\* episodic.py:183-195: the INSERT, once the write lock is free; a row that
\* breaks the UNIQUE constraint raises IntegrityError and the call fails
AppendInsert(c) ==
    /\ writers[c].pc = "insert"
    /\ ~WriteLocked
    /\ writers' = [writers EXCEPT ![c].pc =
            IF UniqueOk(turns, writers[c].session_id, writers[c].next_index)
            THEN "commit" ELSE "integrity_error"]
    /\ UNCHANGED <<storeVars, turnVars, fnVars, retrVars>>

\* episodic.py:183-195: the INSERT while another connection holds the write
\* lock past the busy timeout raises OperationalError and the call fails
AppendBusy(c) ==
    /\ writers[c].pc = "insert"
    /\ WriteLocked
    /\ writers' = [writers EXCEPT ![c].pc = "busy_error"]
    /\ UNCHANGED <<storeVars, turnVars, fnVars, retrVars>>

\* episodic.py:197-198
AppendCommit(c) ==
    /\ writers[c].pc = "commit"
    /\ turns' = Append(turns,
            [session_id |-> writers[c].session_id,
             user_id |-> writers[c].user_id,
             turn_index |-> writers[c].next_index,
             user_message |-> writers[c].user_message,
             assistant_response |-> writers[c].assistant_response])
    /\ writers' = [writers EXCEPT ![c].pc = "done"]
    /\ UNCHANGED <<summaries, notes, turnVars, fnVars, retrVars>>

InitStore ==
    /\ StoreInit
    /\ TurnInit
    /\ facts = <<>>
    /\ RetrievalIdle
    /\ persona \in Personas
    /\ writers = [c \in Conns |-> IdleWriter]
    /\ fn_in = [fn |-> "none"]
    /\ fn_out = [fn |-> "none"]

NextStore ==
    \E c \in Conns :
        \/ AppendBegin(c)
        \/ AppendSelect(c)
        \/ AppendInsert(c)
        \/ AppendBusy(c)
        \/ AppendCommit(c)

SpecStore == InitStore /\ [][NextStore]_vars

(***************************************************************************)
(* HybridRetriever.search and Reranker.rerank.  A fact is known by its     *)
(* position in self.facts; normalized scores, similarities, distances and  *)
(* confidences are in hundredths.                                          *)
(***************************************************************************)
MaxFacts == 3

K_RETRIEVE_INITIAL == 20

K_RETRIEVE == 5

\* the fact at position i of the corpus: its id and its confidence
Fact(i) == [id |-> i, confidence |-> IF i % 2 = 1 THEN 90 ELSE 40]

\* self.facts as _load_facts leaves it
Corpus(n) == [i \in 1..n |-> Fact(i)]

Corpora == { Corpus(n) : n \in 0..MaxFacts }

\* BM25 scores above zero
LexScores == {1, 2, 3}

\* cosine distances, in hundredths, of the range 0..200: an identical
\* direction and one past the right angle
DenseDistances == {0, 150}

\* seq[:k]
Take(seq, k) == IF Len(seq) <= k THEN seq ELSE SubSeq(seq, 1, k)

\* the pairs (index, value) of distinct facts of a corpus of n facts
PairLists(n, values) ==
    { r \in UNION { [1..m -> (1..n) \X values] : m \in 0..n } :
        \A i, j \in 1..Len(r) : i # j => r[i][1] # r[j][1] }

\* the facts of positive BM25 score, best first (index.py:112-113)
LexicalRankings(n) ==
    { r \in PairLists(n, LexScores) :
        \A i \in 1..Len(r) - 1 : r[i][2] >= r[i + 1][2] }

\* the facts of the collection, nearest first, with their distances
DenseRankings(n) ==
    { r \in PairLists(n, DenseDistances) :
        /\ Len(r) = n
        /\ \A i \in 1..Len(r) - 1 : r[i][2] <= r[i + 1][2] }

\* _bm25_search (index.py:109-114): the top_k best facts, those of score 0 left out
Bm25Search(ranking, top_k) == Take(ranking, top_k)

\* _dense_search (index.py:116-139): the n_results nearest, distance turned
\* into similarity
DenseSearch(ranking, top_k) ==
    LET nearest == Take(ranking, top_k)
    IN [i \in 1..Len(nearest) |-> <<nearest[i][1], 100 - nearest[i][2]>>]

\* 0.5 * x
Half(x) == (5 * x) \div 10

\* combined_scores[idx] = combined_scores.get(idx, 0) + v on a dict kept in
\* insertion order
DictAdd(d, idx, v) ==
    IF \E i \in 1..Len(d) : d[i][1] = idx
    THEN [i \in 1..Len(d) |-> IF d[i][1] = idx THEN <<idx, d[i][2] + v>> ELSE d[i]]
    ELSE Append(d, <<idx, v>>)

\* the normalized BM25 score (index.py:159-164)
NormalizedBm25(score, bm25_results) ==
    LET scores == { bm25_results[i][2] : i \in 1..Len(bm25_results) }
        max_bm25 == CHOOSE x \in scores : \A y \in scores : y <= x
        min_bm25 == CHOOSE x \in scores : \A y \in scores : y >= x
        bm25_range == IF max_bm25 > min_bm25 THEN max_bm25 - min_bm25 ELSE 1
    IN IF bm25_range > 0 THEN ((score - min_bm25) * 100) \div bm25_range ELSE 50

\* the loop of index.py:163-165
RECURSIVE AddLexical(_, _, _)
AddLexical(d, bm25_results, i) ==
    IF i > Len(bm25_results) THEN d
    ELSE AddLexical(
            DictAdd(d, bm25_results[i][1],
                    Half(NormalizedBm25(bm25_results[i][2], bm25_results))),
            bm25_results, i + 1)

\* the loop of index.py:168-169
RECURSIVE AddDense(_, _, _)
AddDense(d, dense_results, i) ==
    IF i > Len(dense_results) THEN d
    ELSE AddDense(DictAdd(d, dense_results[i][1], Half(dense_results[i][2])),
                  dense_results, i + 1)

\* sorted(pairs, key=lambda x: x[1], reverse=True): by key descending, pairs
\* of equal key in their original order
RECURSIVE SortedReverse(_)
SortedReverse(pairs) ==
    IF pairs = <<>> THEN <<>>
    ELSE LET rest == SortedReverse(Tail(pairs))
             before == SelectSeq(rest, LAMBDA p : p[2] > Head(pairs)[2])
             after == SelectSeq(rest, LAMBDA p : p[2] <= Head(pairs)[2])
         IN before \o <<Head(pairs)>> \o after

\* a search that keeps the k first candidates found instead of the k best
SearchUnsorted(corpus, bm25_results, dense_results, k) ==
    LET combined_scores == AddDense(AddLexical(<<>>, bm25_results, 1), dense_results, 1)
        kept == Take(combined_scores, k)
    IN [i \in 1..Len(kept) |->
           [fact_id |-> corpus[kept[i][1]].id, score |-> kept[i][2],
            confidence |-> corpus[kept[i][1]].confidence]]

\* HybridRetriever.search after the index calls (index.py:154-191)
Search(corpus, bm25_results, dense_results, k) ==
    LET combined_scores == AddDense(AddLexical(<<>>, bm25_results, 1), dense_results, 1)
        sorted_results == Take(SortedReverse(combined_scores), k)
    IN [i \in 1..Len(sorted_results) |->
           [fact_id |-> corpus[sorted_results[i][1]].id,
            score |-> sorted_results[i][2],
            confidence |-> corpus[sorted_results[i][1]].confidence]]

\* relevance scores of the cross-encoder
RelevanceScores == {1, 2}

\* a rerank that returns the candidates in the order it received them
RerankKeepingOrder(results, scores, top_k) ==
    LET kept == Take(results, top_k)
    IN [i \in 1..Len(kept) |->
           [fact_id |-> kept[i].fact_id, score |-> kept[i].score,
            confidence |-> kept[i].confidence, rerank_score |-> scores[i]]]

\* Reranker.rerank after the empty test (rerank.py:34-50); scores is what
\* self.model.predict returned for the pairs
Rerank(results, scores, top_k) ==
    LET scored_results == SortedReverse([i \in 1..Len(results) |-> <<results[i], scores[i]>>])
        kept == Take(scored_results, top_k)
    IN [i \in 1..Len(kept) |->
           [fact_id |-> kept[i][1].fact_id, score |-> kept[i][1].score,
            confidence |-> kept[i][1].confidence, rerank_score |-> kept[i][2]]]

(***************************************************************************)
(* The retrieval steps of process_turn (orchestrator.py:79-127): search,   *)
(* rerank, the average confidence, the Producer's branch and the call of   *)
(* build_pack.                                                             *)
(***************************************************************************)
NoFactsConfidence == 35

\* a search that runs both indexes before it looks at the corpus
HybridSearchEager(corpus, lexical, dense, k) ==
    [results |-> IF corpus = <<>> THEN <<>>
                 ELSE Search(corpus, Bm25Search(lexical, k), DenseSearch(dense, k), k),
     lexical_calls |-> 1, embed_calls |-> 1]

\* HybridRetriever.search (index.py:141-191) with the calls it made
HybridSearch(corpus, lexical, dense, k) ==
    IF corpus = <<>>
    THEN [results |-> <<>>, lexical_calls |-> 0, embed_calls |-> 0]
    ELSE [results |-> Search(corpus, Bm25Search(lexical, k), DenseSearch(dense, k), k),
          lexical_calls |-> 1, embed_calls |-> 1]

\* Reranker.rerank (rerank.py:14-50) with the calls it made
RerankCall(results, scores, top_k) ==
    IF results = <<>>
    THEN [results |-> <<>>, relevance_calls |-> 0]
    ELSE [results |-> Rerank(results, scores, top_k), relevance_calls |-> 1]

\* sum(r.get("confidence", 0.8) for r in reranked_results)
RECURSIVE SumConfidence(_)
SumConfidence(results) ==
    IF results = <<>> THEN 0
    ELSE Head(results).confidence + SumConfidence(Tail(results))

\* an average that takes the confidence of the best fact alone
AvgConfidenceOfBest(results) ==
    IF results # <<>>
    THEN [num |-> Head(results).confidence, den |-> 1]
    ELSE [num |-> NoFactsConfidence, den |-> 1]

\* avg_confidence (orchestrator.py:108-111)
AvgConfidence(results) ==
    IF results # <<>>
    THEN [num |-> SumConfidence(results), den |-> Len(results)]
    ELSE [num |-> NoFactsConfidence, den |-> 1]

\* the branch of Producer.produce (producer.py:30)
ProducerPath(retrieved_notes) ==
    IF retrieved_notes = <<>> THEN "history" ELSE "notes"

\* orchestrator.py:88: search(query, k=20)
SearchStep ==
    /\ rpc = "search"
    /\ \E l \in LexicalRankings(Len(facts)), d \in DenseRankings(Len(facts)) :
          LET r == HybridSearch(facts, l, d, K_RETRIEVE_INITIAL)
          IN /\ initial_results' = r.results
             /\ oracle_calls' = [oracle_calls EXCEPT
                                    !.lexical = @ + r.lexical_calls,
                                    !.embed = @ + r.embed_calls]
    /\ rpc' = "rerank"
    /\ UNCHANGED <<facts, reranked_results, avg_confidence, producer_path,
                   retrieved_confidence, storeVars, turnVars, writers, fnVars>>

\* orchestrator.py:92-95: rerank(query, initial_results, top_k=K_RETRIEVE)
\* when there are results
RerankStep ==
    /\ rpc = "rerank"
    /\ IF initial_results # <<>>
       THEN \E sc \in [1..Len(initial_results) -> RelevanceScores] :
               LET r == RerankCall(initial_results, sc, K_RETRIEVE)
               IN /\ reranked_results' = r.results
                  /\ oracle_calls' = [oracle_calls EXCEPT
                                         !.relevance = @ + r.relevance_calls]
       ELSE /\ reranked_results' = <<>>
            /\ UNCHANGED oracle_calls
    /\ rpc' = "produce"
    /\ UNCHANGED <<facts, initial_results, avg_confidence, producer_path,
                   retrieved_confidence, storeVars, turnVars, writers, fnVars>>

\* orchestrator.py:108-119: the average confidence, then Producer.produce
ProduceStep ==
    /\ rpc = "produce"
    /\ avg_confidence' = AvgConfidence(reranked_results)
    /\ producer_path' = ProducerPath(reranked_results)
    /\ rpc' = "contextor"
    /\ UNCHANGED <<facts, initial_results, reranked_results, oracle_calls,
                   retrieved_confidence, storeVars, turnVars, writers, fnVars>>

\* the style oracle's outputs after a retrieval: those of the pipeline, an
\* object without a hedging level and one with a low hedging level
RetrievalStyleResponses ==
    PipelineStyleResponses \cup
    { StyleObject(JMissing, JNum(50), JBool(TRUE), JObjs(2)),
      StyleObject(JNum(1), JNum(50), JBool(TRUE), JObjs(2)) }

\* orchestrator.py:123-127: build_pack(..., retrieved_confidence=avg_confidence).
\* build_pack writes the confidence into the prompt (contextor.py:129) and
\* reads it nowhere else; the pack is made of the style oracle's answer
BuildPackCall ==
    /\ rpc = "contextor"
    /\ retrieved_confidence' = avg_confidence
    /\ \E resp \in RetrievalStyleResponses :
          LET r == BuildPack(resp, persona, user_message)
          IN IF r.outcome = "raised"
             THEN /\ rpc' = "error"
                  /\ UNCHANGED style_pack
             ELSE /\ rpc' = "done"
                  /\ style_pack' = r.pack
    /\ UNCHANGED <<facts, initial_results, reranked_results, avg_confidence,
                   producer_path, oracle_calls, storeVars, persona, pc, served,
                   user_message, user_id, session_id, conversation_history,
                   final_response, iterations, judge_decision, judge_scores,
                   judge_edits, judge_calls, apply_calls, result, writers,
                   fnVars>>

\* the persona of the default orchestrator
DefaultPersona == CHOOSE q \in Personas : q.has_profile

InitRetrieval ==
    /\ StoreInit
    /\ TurnInit
    /\ persona = DefaultPersona
    /\ writers = <<>>
    /\ fn_in = [fn |-> "none"]
    /\ fn_out = [fn |-> "none"]
    /\ facts \in Corpora
    /\ RetrievalIdle

NextRetrieval ==
    \/ SearchStep
    \/ RerankStep
    \/ ProduceStep
    \/ BuildPackCall

SpecRetrieval == InitRetrieval /\ [][NextRetrieval]_vars

(***************************************************************************)
(* Judge.judge, Contextor.build_pack and _enforce_style_rules applied on   *)
(* their own to the oracle outputs below.                                  *)
(***************************************************************************)
MaxAtoms == 3

ScoreInputs == {JMissing, JStr, JNum(39), JNum(40), JNum(60)}

OverallInputs == {JMissing, JNull, JNum(30)}

AcceptInputs == {JBool(TRUE), JBool(FALSE), JMissing, JNull, JStr}

EditsInputs == {JMissing, JList(2), JStr}

JudgeResponses ==
    { JudgeNonObject(k) : k \in {"text", "array", "scalar"} } \cup
    { JudgeObject(f, p, h, s, o, a, e) :
        f \in ScoreInputs, p \in ScoreInputs, h \in ScoreInputs,
        s \in ScoreInputs, o \in OverallInputs, a \in AcceptInputs,
        e \in EditsInputs }

StyleResponses ==
    { StyleNonObject(k) : k \in {"text", "array", "scalar"} } \cup
    { StyleObject(h, t, f, fs) :
        h \in {JMissing, JNum(1), JNum(4), JNum(9), JStr, JNull},
        t \in {JMissing, JNum(10), JNum(500), JStr},
        f \in {JMissing, JBool(TRUE), JBool(FALSE), JStr},
        fs \in {JMissing, JObjs(2), JList(2), JNum(1), JNull} }

\* pieces of generated text
Atoms ==
    { <<"a"," ">>, <<"B","."," ">>, <<"[","D","3","]"," ">>,
      <<"[","A","B","1","2","]">>, <<"o","k",",">>, <<"?">>, <<"!">>,
      <<"a"," ","b"," ","c"," ","d"," ","e"," ","f"," ">> }

RECURSIVE Flatten(_)
Flatten(ss) == IF ss = <<>> THEN <<>> ELSE Head(ss) \o Flatten(Tail(ss))

\* the generated texts as refine hands them to the enforcement pass
EnforceInputs ==
    { Strip(Flatten(ss)) : ss \in UNION { [1..n -> Atoms] : n \in 0..MaxAtoms } }

\* the values of k: the cuts that drop candidates and the default
SearchKs == {1, 2, K_RETRIEVE_INITIAL}

\* search(query, k) on a corpus and what its two indexes hold for the query
SearchInputs(n) ==
    { [fn |-> "search", persona |-> DefaultPersona, facts |-> Corpus(n),
       lexical |-> l, dense |-> d, k |-> k] :
        l \in LexicalRankings(n), d \in DenseRankings(n), k \in SearchKs }

\* the values of top_k
RerankKs == {1, 2, K_RETRIEVE}

\* candidate lists as search returns them
RerankCandidates(n) ==
    { Search(Corpus(n), <<>>, DenseSearch(d, n), n) : d \in DenseRankings(n) }

\* rerank(query, results, top_k) and what the cross-encoder predicts
RerankInputs(c) ==
    { [fn |-> "rerank", persona |-> DefaultPersona, results |-> c,
       scores |-> sc, top_k |-> k] :
        sc \in [1..Len(c) -> RelevanceScores], k \in RerankKs }

FnInputs ==
    { [fn |-> "judge", resp |-> r, persona |-> DefaultPersona] :
        r \in JudgeResponses } \cup
    { [fn |-> "build_pack", resp |-> r, persona |-> q, user_message |-> m] :
        r \in StyleResponses, q \in Personas, m \in UserMessages } \cup
    { [fn |-> "enforce", text |-> t, persona |-> DefaultPersona,
       user_message |-> m] : t \in EnforceInputs, m \in UserMessages }

CallJudge ==
    /\ fn_in.fn = "judge"
    /\ fn_out.fn = "none"
    /\ fn_out' = [fn |-> "judge", value |-> Judge(fn_in.resp)]
    /\ UNCHANGED <<storeVars, turnVars, writers, fn_in, retrVars>>

CallBuildPack ==
    /\ fn_in.fn = "build_pack"
    /\ fn_out.fn = "none"
    /\ fn_out' = [fn |-> "build_pack",
                  value |-> BuildPack(fn_in.resp, persona, fn_in.user_message)]
    /\ UNCHANGED <<storeVars, turnVars, writers, fn_in, retrVars>>

CallEnforce ==
    /\ fn_in.fn = "enforce"
    /\ fn_out.fn = "none"
    /\ fn_out' = [fn |-> "enforce",
                  value |-> EnforceStyleRules(fn_in.text, fn_in.user_message)]
    /\ UNCHANGED <<storeVars, turnVars, writers, fn_in, retrVars>>

InitFn ==
    /\ StoreInit
    /\ TurnInit
    /\ facts = <<>>
    /\ RetrievalIdle
    /\ writers = <<>>
    /\ \/ fn_in \in FnInputs
       \/ \E n \in 0..MaxFacts : fn_in \in SearchInputs(n)
       \/ \E n \in 0..MaxFacts : \E c \in RerankCandidates(n) :
                fn_in \in RerankInputs(c)
    /\ persona = fn_in.persona
    /\ fn_out = [fn |-> "none"]

CallSearch ==
    /\ fn_in.fn = "search"
    /\ fn_out.fn = "none"
    /\ fn_out' = [fn |-> "search",
                  value |-> HybridSearch(fn_in.facts, fn_in.lexical, fn_in.dense,
                                         fn_in.k)]
    /\ UNCHANGED <<storeVars, turnVars, writers, fn_in, retrVars>>

CallRerank ==
    /\ fn_in.fn = "rerank"
    /\ fn_out.fn = "none"
    /\ fn_out' = [fn |-> "rerank",
                  value |-> RerankCall(fn_in.results, fn_in.scores, fn_in.top_k)]
    /\ UNCHANGED <<storeVars, turnVars, writers, fn_in, retrVars>>

NextFn ==
    \/ CallJudge
    \/ CallBuildPack
    \/ CallEnforce
    \/ CallSearch
    \/ CallRerank

SpecFn == InitFn /\ [][NextFn]_vars

(***************************************************************************)
(* Properties.                                                             *)
(***************************************************************************)
InLoop == pc \in {"judge", "edit"}

\* C1: the revision loop ends for every sequence of judging-oracle outputs:
\* a turn makes at most MAX_REVISE_LOOPS + 1 judge calls and at most
\* MAX_REVISE_LOOPS apply_edits calls, the iteration counter counts the
\* apply_edits calls and never exceeds MAX_REVISE_LOOPS, every step inside
\* the loop is a further call or leaves the loop, and the loop is never
\* stuck.
C1_RevisionLoopBounded ==
    /\ [](/\ judge_calls <= MAX_REVISE_LOOPS + 1
          /\ apply_calls <= MAX_REVISE_LOOPS
          /\ iterations = apply_calls
          /\ iterations <= MAX_REVISE_LOOPS)
    /\ [][InLoop =>
            \/ ~InLoop'
            \/ judge_calls' + apply_calls' = judge_calls + apply_calls + 1]_vars
    /\ [](InLoop => ENABLED Next)

\* C1 witness: a turn completed after the judge response failed to parse on
\* every attempt, with MAX_REVISE_LOOPS apply_edits calls
C1_LoopExhausted ==
    /\ pc = "done"
    /\ apply_calls = MAX_REVISE_LOOPS
    /\ judge_calls = MAX_REVISE_LOOPS
    /\ judge_decision = JudgeFallback

\* the text carries the marks of the enforcement pass: no uppercase letter,
\* no loud punctuation, and once the word budget is reached only citation
\* tokens follow
StyleEnforced(text, message) ==
    LET toks == Split(text)
        words == [i \in 1..Len(toks) |->
                     IF IsCitationToken(toks[i]) THEN 0 ELSE ContentWords(toks[i])]
        total[i \in 0..Len(toks)] == IF i = 0 THEN 0 ELSE total[i - 1] + words[i]
    IN /\ \A i \in 1..Len(text) : ~IsUpper(text[i]) /\ text[i] \notin LoudPunctuation
       /\ \A i \in 1..Len(toks) :
             total[i - 1] >= MaxWords(message) => IsCitationToken(toks[i])

\* C2: every response process_turn returns is style-enforced (lowercase,
\* loud punctuation stripped, length capped), whether or not it was revised.
C2_ReturnedResponseEnforced ==
    pc = "done" => StyleEnforced(result.response, user_message)

\* C3: when a turn completes, every apply_edits was followed by a judging
\* pass, so the scores returned are those of the response returned.
C3_RevisedResponseJudged ==
    pc = "done" => judge_calls = apply_calls + 1

\* C4: when a turn of session s completes, the stored history of s is the
\* history the turn started from plus the pair (user message, response).
C4_TurnAppended ==
    pc = "done" =>
        GetConversationHistory(turns, session_id) =
            Append(conversation_history,
                   [user |-> user_message, assistant |-> result.response])

\* C5: under any interleaving of append_turn calls no two rows of a session
\* share a turn index, the indices of a session are 0..n-1 in insertion
\* order, and no stored row is ever modified or deleted.
C5_TurnIndicesUnique ==
    /\ [](\A sid \in Sessions :
            LET rows == SessionRows(turns, sid)
            IN \A i \in 1..Len(rows) : rows[i].turn_index = i - 1)
    /\ [][/\ Len(turns') >= Len(turns)
          /\ \A i \in 1..Len(turns) : turns'[i] = turns[i]]_vars

\* C5 witness: two calls raced on a session that now holds two rows, and
\* the constraint turned one of them away
C5_RaceRejected ==
    /\ \E sid \in Sessions : Len(SessionRows(turns, sid)) >= 2
    /\ \E c \in Conns : writers[c].pc = "integrity_error"

\* C6: append_turn calls that interleave on a session all complete: none
\* fails on the index it read.
C6_NoAppendFails ==
    \A c \in Conns : writers[c].pc # "integrity_error"

\* a judge response that is not a well-formed object
JudgeMalformed(resp) ==
    \/ resp.kind # "object"
    \/ \E x \in {resp.factuality, resp.persona, resp.helpfulness, resp.safety,
                 resp.overall} :
          \/ x.t \notin {"num", "missing"}
          \/ x.t = "num" /\ (x.v < ScoreMin \/ x.v > ScoreMax)
    \/ resp.accept.t \notin {"bool", "missing"}
    \/ resp.targeted_edits.t \notin {"list", "missing"}

\* a style response that is not a well-formed object (hedging is 0..5)
StyleMalformed(resp) ==
    \/ resp.kind # "object"
    \/ resp.hedging_level.t \notin {"num", "missing"}
    \/ resp.hedging_level.t = "num" /\ resp.hedging_level.v > 5
    \/ resp.target_len_tokens.t \notin {"num", "missing"}
    \/ resp.follow_up_question_required.t \notin {"bool", "missing"}
    \/ resp.few_shots.t \notin {"objs", "missing"}

\* C7: on a malformed oracle response judge returns the conservative
\* rejection and build_pack returns the default policy; neither raises.
C7_MalformedRecovered ==
    /\ (fn_out.fn = "judge" /\ JudgeMalformed(fn_in.resp))
          => fn_out.value = JudgeFallback
    /\ (fn_out.fn = "build_pack" /\ StyleMalformed(fn_in.resp))
          => /\ fn_out.value.outcome = "returned"
             /\ fn_out.value.pack = DefaultPack(persona, fn_in.user_message)

\* C8 as the specification states it: on a judge response that is not JSON
\* the decision rejects, carries the one generic edit, and scores safety 5.0
\* and factuality, persona, helpfulness and overall 3.0.
C8_FallbackOverallThree ==
    (fn_out.fn = "judge" /\ fn_in.resp.kind = "text") =>
        /\ fn_out.value.accept = FALSE
        /\ fn_out.value.targeted_edits = <<GenericEdit>>
        /\ fn_out.value.scores =
              [factuality |-> 30, persona |-> 30, helpfulness |-> 30,
               safety |-> 50, overall |-> 30]

\* C8 amended: on a judge response that is not JSON the decision rejects,
\* carries the one generic edit, and scores safety 5.0, factuality, persona
\* and helpfulness 3.0 and overall 3.5.
C8_FallbackDecision ==
    (fn_out.fn = "judge" /\ fn_in.resp.kind = "text") =>
        /\ fn_out.value.outcome = "returned"
        /\ fn_out.value.accept = FALSE
        /\ fn_out.value.targeted_edits = <<GenericEdit>>
        /\ fn_out.value.scores =
              [factuality |-> 30, persona |-> 30, helpfulness |-> 30,
               safety |-> 50, overall |-> 35]

\* C8 witness: judge has answered a response that is not JSON
C8_UnparseableJudged == fn_out.fn = "judge" /\ fn_in.resp.kind = "text"

\* the text with its citation tokens taken out
RECURSIVE OutsideCitations(_)
OutsideCitations(t) ==
    IF t = <<>> THEN <<>>
    ELSE LET e == CitationEnd(t, 1)
         IN IF e > 0 THEN OutsideCitations(From(t, e + 1))
            ELSE <<Head(t)>> \o OutsideCitations(Tail(t))

\* C9: every citation token of the text entering the enforcement pass is in
\* the text leaving it, unchanged, and no other character of the output is
\* uppercase.
C9_CitationsPreserved ==
    fn_out.fn = "enforce" =>
        LET cits == FoundCitations(fn_in.text)
            rest == OutsideCitations(fn_out.value)
        IN /\ \A i \in 1..Len(cits) : Contains(fn_out.value, cits[i])
           /\ \A i \in 1..Len(rest) : ~IsUpper(rest[i])

\* a judge response every field of which is present or absent as the prompt
\* asks: numbers within 1..5, a boolean flag, a list of edits
JudgeWellFormed(resp) ==
    /\ resp.kind = "object"
    /\ ~JudgeMalformed(resp)

\* the score judge reads from a field: its number, or the default when absent
ScoreRead(x, default) == IF x.t = "missing" THEN default ELSE x.v

\* C10: for a parsed judge response the decision accepts iff the oracle's
\* flag is true or factuality, persona, helpfulness and safety are all at
\* least 4.0; the overall score plays no part.
C10_AcceptRule ==
    (fn_out.fn = "judge" /\ JudgeWellFormed(fn_in.resp)) =>
        /\ fn_out.value.outcome = "returned"
        /\ fn_out.value.accept =
              (\/ fn_in.resp.accept = JBool(TRUE)
               \/ /\ ScoreRead(fn_in.resp.factuality, 30) >= 40
                  /\ ScoreRead(fn_in.resp.persona, 30) >= 40
                  /\ ScoreRead(fn_in.resp.helpfulness, 30) >= 40
                  /\ ScoreRead(fn_in.resp.safety, 50) >= 40)

\* C10 witness: the oracle's flag is false, the four scores reach 4.0 and
\* the overall score does not, and the decision accepts
C10_OverrideAccepted ==
    /\ fn_out.fn = "judge"
    /\ fn_in.resp.accept = JBool(FALSE)
    /\ fn_in.resp.overall = JNum(30)
    /\ \A x \in {fn_in.resp.factuality, fn_in.resp.persona,
                 fn_in.resp.helpfulness, fn_in.resp.safety} : x = JNum(40)
    /\ fn_out.value.accept

\* C11: after a judging pass that returns a decision the loop is left at once
\* when the decision accepts or carries no edit, and apply_edits is called
\* (with the counter incremented) exactly when the decision is a rejection
\* with at least one edit and the counter is below MAX_REVISE_LOOPS.
C11_LoopBranch ==
    [][ /\ (pc = "judge" /\ pc' # "error") =>
              /\ (judge_decision'.accept \/ judge_decision'.targeted_edits = <<>>)
                    => pc' = "memory"
              /\ pc' = "edit" <=>
                    /\ ~judge_decision'.accept
                    /\ judge_decision'.targeted_edits # <<>>
                    /\ iterations < MAX_REVISE_LOOPS
        /\ pc = "edit" =>
              /\ apply_calls' = apply_calls + 1
              /\ iterations' = iterations + 1
        /\ apply_calls' = apply_calls + 1 =>
              /\ pc = "edit"
              /\ ~judge_decision.accept
              /\ judge_decision.targeted_edits # <<>>
              /\ iterations < MAX_REVISE_LOOPS
        /\ pc = "memory" =>
              /\ judge_calls' = judge_calls
              /\ apply_calls' = apply_calls ]_vars

\* C11 witness: after one revision the judge rejected without edits and the
\* loop was left
C11_StoppedWithoutEdits ==
    /\ pc = "memory"
    /\ iterations = 1
    /\ judge_decision.outcome = "returned"
    /\ ~judge_decision.accept
    /\ judge_decision.targeted_edits = <<>>

\* C12: a completed turn reports revised = (iterations > 0), the scores of
\* the last judge call and the last response; a turn whose revisions ran out
\* without an acceptance reaches the code after the loop and completes.
C12_ResultReportsLastPass ==
    /\ pc = "done" =>
          /\ result.revised = (iterations > 0)
          /\ result.scores = judge_decision.scores
          /\ result.response = final_response
    /\ (pc # "idle" /\ iterations = MAX_REVISE_LOOPS) =>
          /\ pc \in {"memory", "done"}
          /\ pc = "memory" => ENABLED Finish

\* C12 witness: a turn completed with MAX_REVISE_LOOPS revisions, the last
\* decision a parsed rejection with edits
C12_NeverAccepted ==
    /\ pc = "done"
    /\ iterations = MAX_REVISE_LOOPS
    /\ ~judge_decision.accept
    /\ judge_decision.targeted_edits # <<>>
    /\ judge_decision # JudgeFallback
    /\ result.revised

\* C13: the response a completed turn returns is not empty.
C13_ResponseNonEmpty ==
    pc = "done" => result.response # <<>>

\* the alphabetic words of a text: its maximal runs of letters
RECURSIVE AlphaWords(_)
AlphaWords(t) ==
    IF t = <<>> THEN 0
    ELSE IF IsUpper(t[1]) \/ IsLowerLetter(t[1])
         THEN 1 + AlphaWords(From(t, RunEnd(t, 1, SeqRange(UpperSeq) \cup SeqRange(LowerSeq))))
         ELSE AlphaWords(Tail(t))

\* round(userWords * 1.2) + 4, capped at 35
WordBudget(message) ==
    MinOf(35, ((12 * Len(Split(message)) + 5) \div 10) + 4)

\* C14: the enforcement pass leaves at most min(35, round(userWords*1.2)+4)
\* alphabetic words outside citation tokens, and at least 6 when the text
\* entering it had at least 6.
C14_WordBudgetKept ==
    fn_out.fn = "enforce" =>
        /\ AlphaWords(OutsideCitations(fn_out.value)) <= WordBudget(fn_in.user_message)
        /\ AlphaWords(OutsideCitations(fn_in.text)) >= 6
              => AlphaWords(OutsideCitations(fn_out.value)) >= 6

\* C15: when the style pack of the turn does not ask for a follow-up
\* question, the response returned does not end in a question mark.
C15_NoTrailingQuestion ==
    (pc = "done" /\ ~style_pack.follow_up_question_required) =>
        \/ result.response = <<>>
        \/ result.response[Len(result.response)] # "?"

\* C16: the list search returns is ordered by fused score descending, and two
\* candidates of equal fused score are in ascending order of fact id.
C16_TiesByFactId ==
    fn_out.fn = "search" =>
        LET res == fn_out.value.results
        IN \A i, j \in 1..Len(res) :
              i < j => \/ res[i].score > res[j].score
                       \/ /\ res[i].score = res[j].score
                          /\ res[i].fact_id < res[j].fact_id

\* the positions of the facts an index returned
Returned(index_results) == { index_results[i][1] : i \in 1..Len(index_results) }

\* the value an index returned for the fact at position p
ValueOf(index_results, p) ==
    LET i == CHOOSE i \in 1..Len(index_results) : index_results[i][1] = p
    IN index_results[i][2]

\* the fused score of the fact at position p: half its min-max normalized
\* lexical score plus half its dense similarity, 0 for an index that did not
\* return it; flat is the normalized value when all lexical scores are equal
FusedScore(p, bm25_results, dense_results, flat) ==
    LET scores == { bm25_results[i][2] : i \in 1..Len(bm25_results) }
        lo == CHOOSE x \in scores : \A y \in scores : x <= y
        hi == CHOOSE x \in scores : \A y \in scores : x >= y
        lexical == IF p \notin Returned(bm25_results) THEN 0
                   ELSE IF hi > lo
                        THEN ((ValueOf(bm25_results, p) - lo) * 100) \div (hi - lo)
                        ELSE flat
        dense == IF p \notin Returned(dense_results) THEN 0
                 ELSE ValueOf(dense_results, p)
    IN Half(lexical) + Half(dense)

C18_EmptyMakesNoCalls ==
    /\ HybridSearch(<<>>, <<>>, <<>>, K_RETRIEVE_INITIAL) =
          [results |-> <<>>, lexical_calls |-> 0, embed_calls |-> 0]
    /\ RerankCall(<<>>, <<>>, K_RETRIEVE) = [results |-> <<>>, relevance_calls |-> 0]
    /\ (facts = <<>> /\ rpc # "search") =>
          /\ initial_results = <<>>
          /\ oracle_calls.lexical = 0
          /\ oracle_calls.embed = 0
    /\ (initial_results = <<>> /\ rpc \notin {"search", "rerank"}) =>
          /\ reranked_results = <<>>
          /\ oracle_calls.relevance = 0

\* C18 witness: the retrieval of a turn on an empty corpus is over and no
\* index or oracle was called
C18_EmptyCorpusTurn ==
    /\ rpc = "done"
    /\ facts = <<>>
    /\ reranked_results = <<>>
    /\ oracle_calls = NoCalls

\* C19: rerank returns min(top_k, n) of its n candidates, each once, by
\* relevance score descending whatever their fused scores; each carries its
\* relevance score as rerank_score and its fused score unchanged, and no
\* candidate left out has a higher relevance score than one returned.
C19_RerankOrder ==
    (fn_out.fn = "rerank" /\ fn_in.results # <<>>) =>
        LET res == fn_out.value.results
            cands == fn_in.results
            ids == { res[i].fact_id : i \in 1..Len(res) }
        IN /\ Len(res) = MinOf(fn_in.top_k, Len(cands))
           /\ Cardinality(ids) = Len(res)
           /\ \A i \in 1..Len(res) :
                 \E j \in 1..Len(cands) :
                    /\ cands[j].fact_id = res[i].fact_id
                    /\ cands[j].score = res[i].score
                    /\ cands[j].confidence = res[i].confidence
                    /\ fn_in.scores[j] = res[i].rerank_score
           /\ \A i \in 1..Len(res) - 1 : res[i].rerank_score >= res[i + 1].rerank_score
           /\ \A j \in 1..Len(cands) :
                 cands[j].fact_id \notin ids =>
                    \A i \in 1..Len(res) : fn_in.scores[j] <= res[i].rerank_score

\* C19 witness: rerank put a candidate of lower fused score first
C19_FusionOrderOverruled ==
    /\ fn_out.fn = "rerank"
    /\ Len(fn_out.value.results) >= 2
    /\ fn_out.value.results[1].score < fn_out.value.results[2].score
    /\ fn_out.value.results[1].rerank_score > fn_out.value.results[2].rerank_score

\* C20: the confidence build_pack receives is the mean of the confidences of
\* the reranked facts, and 0.35 when there is none; the Producer takes its
\* history path exactly when there is none.
C20_ConfidencePassed ==
    rpc = "done" =>
        /\ reranked_results # <<>> =>
              retrieved_confidence.num * Len(reranked_results) =
                 retrieved_confidence.den * SumConfidence(reranked_results)
        /\ reranked_results = <<>> =>
              retrieved_confidence.num = 35 * retrieved_confidence.den
        /\ retrieved_confidence.den > 0
        /\ producer_path = "history" <=> reranked_results = <<>>

\* C20 witness: build_pack received the mean of two different confidences
C20_MeanOfSeveral ==
    /\ rpc = "done"
    /\ Len(reranked_results) >= 2
    /\ reranked_results[1].confidence # reranked_results[2].confidence
    /\ producer_path = "notes"

\* C21: when the retrieval confidence handed to build_pack is below 0.5, the
\* pack it returns has a hedging level of at least 3 and at most 5
C21_LowConfidenceHedges ==
    (rpc = "done" /\ retrieved_confidence.num < 50 * retrieved_confidence.den)
        => style_pack.hedging_level \in 3..5

\* C22: on an empty corpus the response of a completed turn holds no
\* citation token and the turn's citations are empty
C22_NoCitationsOnEmptyCorpus ==
    (pc = "done" /\ facts = <<>>) =>
        /\ FoundCitations(result.response) = <<>>
        /\ result.citations = {}

\* C23: in a session served turn after turn the rolling summary is the one
\* written at the last turn whose position is a multiple of 5, with that
\* position as its turn count, and there is none before the 5th turn
C23_SummaryEveryFifth ==
    (pc = "done" /\ session_id = "s1") =>
        /\ summaries["s1"].conversation_turns = 5 * (served \div 5)
        /\ served < 5 => summaries["s1"] = NoSummary

\* the notes of the users other than uid, in table order
NotesOfOthers(table, uid) == SelectSeq(table, LAMBDA n : n.user_id # uid)

\* C24: the step that completes a turn appends exactly one note of the
\* turn's user when the user message holds a preference keyword in any
\* case, and leaves the notes as they are otherwise; it keeps every earlier
\* note in place, equal notes included, and the notes of other users; no
\* other step changes the notes.
C24_NotesAppendOnly ==
    [][ /\ (pc = "memory" /\ pc' = "done") =>
              /\ SubSeq(notes', 1, Len(notes)) = notes
              /\ NotesOfOthers(notes', user_id) = NotesOfOthers(notes, user_id)
              /\ IF \E w \in PreferenceWords : Contains(Lower(user_message), w)
                 THEN /\ Len(notes') = Len(notes) + 1
                      /\ notes'[Len(notes')].user_id = user_id
                 ELSE Len(notes') = Len(notes)
        /\ ~(pc = "memory" /\ pc' = "done") => notes' = notes ]_vars

\* C24 witness: two turns of one user with the same keyword message and the
\* same response left two equal notes, after a note of another user
C24_TwoEqualNotes ==
    /\ pc = "done"
    /\ Len(notes) = 3
    /\ notes[1].user_id # notes[2].user_id
    /\ notes[2] = notes[3]

\* C25: a turn whose oracle call does not return is aborted and completes
C25_TurnNeverHangs == (pc = "hung") ~> (pc = "done")

\* C29: wherever an oracle call of a turn is under way its failure can end
\* the turn; a turn that ended in an error returned nothing to its caller,
\* and the step that ends it writes no turn, summary or note.
C29_FailureLeavesStore ==
    /\ [](pc \in {"contextor", "refine", "judge", "edit"} => ENABLED OracleFails)
    /\ [](pc = "error" => result = NoResult)
    /\ [][ (pc \in OracleCallSites /\ pc' = "error") =>
              /\ turns' = turns
              /\ summaries' = summaries
              /\ notes' = notes ]_vars

\* C29 witness: the second turn of a session ended in an error inside
\* apply_edits, its user message holding a preference keyword, and the
\* store holds the note of the first turn alone
C29_EditCallFailed ==
    /\ pc = "error"
    /\ served = 2
    /\ apply_calls = iterations + 1
    /\ \E w \in PreferenceWords : Contains(Lower(user_message), w)
    /\ Len(notes) = 1

\* C28: every decision judge returns with accept = true has factuality,
\* persona, helpfulness and safety all at least 4.0, whatever flag and
\* scores the oracle answered.
C28_AcceptedMeansAllScoresHigh ==
    (fn_out.fn = "judge" /\ fn_out.value.outcome = "returned"
                         /\ fn_out.value.accept) =>
        \A k \in {"factuality", "persona", "helpfulness", "safety"} :
            fn_out.value.scores[k] >= Threshold

\* C26: when all the lexical results search received have the same score
\* (one result in particular), each of them has normalized lexical value
\* 0.5, so a candidate it returns for such a fact has fused score 0.25 plus
\* half its dense similarity.
C26_FlatLexicalIsHalf ==
    (fn_out.fn = "search" /\ fn_in.facts # <<>>) =>
        LET res == fn_out.value.results
            bm == Bm25Search(fn_in.lexical, fn_in.k)
            dn == DenseSearch(fn_in.dense, fn_in.k)
        IN (bm # <<>> /\ \A i \in 1..Len(bm) : bm[i][2] = bm[1][2]) =>
              /\ \A i \in 1..Len(bm) : NormalizedBm25(bm[i][2], bm) = 50
              /\ \A i \in 1..Len(res) :
                    \A q \in Returned(bm) :
                        fn_in.facts[q].id = res[i].fact_id =>
                            res[i].score = FusedScore(q, bm, dn, 50)

\* C27: the dense similarity search fuses lies in [0, 1], so every fused
\* score it returns lies in [0, 1] for cosine distances in [0, 2].
C27_FusedScoreInUnitRange ==
    (fn_out.fn = "search" /\ fn_in.facts # <<>>) =>
        LET res == fn_out.value.results
            dn == DenseSearch(fn_in.dense, fn_in.k)
        IN /\ \A i \in 1..Len(dn) : dn[i][2] \in 0..100
           /\ \A i \in 1..Len(res) : res[i].score \in 0..100

\* C30: for a persona whose texts hold a disallow marker, so that its
\* follow-up permission is false, every pack build_pack returns has
\* follow_up_question_required = false, on the fallback path and on the
\* parsed path whatever the style oracle answered for that field.
C30_DisallowedFollowUpStaysOff ==
    (fn_out.fn = "build_pack" /\ fn_out.value.outcome = "returned"
                              /\ ~persona.allow_follow_up_questions) =>
        fn_out.value.pack.follow_up_question_required = FALSE

====
